---------------------------- MODULE Spec2Model ----------------------------
(***************************************************************************)
(* A model of src/src/parallax.js: the helper namespace `_` (random,       *)
(* isHex, pick) and the class Parallax (constructor, isInside, area,       *)
(* resize, calculate, update, clear, render, start, pause) together with   *)
(* the host's requestAnimationFrame queue.                                 *)
(*                                                                         *)
(* Representation.                                                         *)
(*  - A JavaScript value that may be undefined is a sequence of length at  *)
(*    most one: << >> is undefined, <<v>> is the value v.                  *)
(*  - Numbers with decimals (coordinates, speeds) are fixed-point integers *)
(*    counted in 1/Unit of a pixel; surface sizes are whole pixels.        *)
(*  - A string that the code inspects (a color token) is the sequence of   *)
(*    its characters.                                                      *)
(*  - Math.random() yields RandomStream[k] / RandDen; an operation that    *)
(*    draws random numbers reads the stream from a position `tape` that    *)
(*    the environment chooses.                                             *)
(***************************************************************************)
EXTENDS Integers, Sequences, FiniteSets, TLC

(* ------------------------------ bounds -------------------------------- *)

\* Most update() calls applied to one generation of stars.
MaxAge == 2

\* Most frame callbacks the host queue holds in the model.
MaxPending == 2

(* ----------------------- representation of values ---------------------- *)

\* One pixel in fixed-point units: .5, .3, .2 (l.180-182), Math.random()*.05
\* (l.277) and Math.random()*20 (l.68) are whole numbers of 1/Unit.
Unit == 10000

\* Math.random() is RandomStream[k] / RandDen, a number in [0, 1).
RandDen == 100

Undefined == << >>

Some(v) == <<v>>

IsDefined(m) == m # << >>

\* JavaScript truthiness of a flag that is undefined, true or false.
Truthy(m) == m = <<TRUE>>

Abs(n) == IF n < 0 THEN -n ELSE n

\* The outcomes of successive Math.random() calls, in 1/RandDen.
RandomStream == <<50, 50, 0, 99,  99, 50, 50, 50, 99,  0, 50, 0, 0, 99, 0>>

\* The positions of the stream an operation may start reading at.
Tapes == {1, 5, 10}

\* The k-th Math.random() of an operation that started reading at `tape`.
MathRandom(tape, k) == RandomStream[((tape + k - 2) % Len(RandomStream)) + 1]

(* ------------------------------ _.random ------------------------------- *)

\* spread = spread ? spread : 25.0
spreadDefault == 25

\* value += Math.random() * 20
jitterRange == 20

\* `previous` is [kind |-> "undefined"], [kind |-> "null"] or
\* [kind |-> "number", val |-> n]; isNaN(undefined) is true, isNaN(null) is
\* false and null - as a number - is 0.
PrevUndefined == [kind |-> "undefined", val |-> 0]

PrevNull == [kind |-> "null", val |-> 0]

PrevNumber(n) == [kind |-> "number", val |-> n]

isNaN(previous) == previous.kind = "undefined"

ToNumber(previous) == IF previous.kind = "number" THEN previous.val ELSE 0

\* _.random(min, max, previous): min and max in pixels, the result in 1/Unit,
\* with the number of Math.random() calls consumed.
random(min, max, previous, tape, k) ==
    LET base == (((MathRandom(tape, k) * (max - min + 1)) \div RandDen) + min) * Unit
        far  == ~isNaN(previous) /\ Abs(base - ToNumber(previous)) >= spreadDefault * Unit
    IN  IF far
        THEN [value |-> base + (MathRandom(tape, k + 1) * jitterRange * Unit) \div RandDen,
              used  |-> 2]
        ELSE [value |-> base, used |-> 1]

\* A pick that draws its index from 0..array.length:
\* array[_.random(0, array.length)]
pickPastTheEnd(array, tape, k) ==
    LET i == random(0, Len(array), PrevUndefined, tape, k).value \div Unit
    IN  IF i + 1 \in 1..Len(array) THEN Some(array[i + 1]) ELSE Undefined

\* _.pick(array): array[_.random(0, array.length - 1)]; indexing past the end
\* of an array (an empty one) yields undefined.
pick(array, tape, k) ==
    LET i == random(0, Len(array) - 1, PrevUndefined, tape, k).value \div Unit
    IN  IF i + 1 \in 1..Len(array) THEN Some(array[i + 1]) ELSE Undefined

(* ------------------------------- _.isHex ------------------------------- *)

HexDigits == {"0", "1", "2", "3", "4", "5", "6", "7", "8", "9",
              "a", "b", "c", "d", "e", "f", "A", "B", "C", "D", "E", "F"}

\* A test whose three-digit alternative is not anchored at the end:
\* /(^#[0-9A-F]{6}$)|(^#[0-9A-F]{3})/i
isHexOpenEnded(color) ==
    /\ Len(color) >= 4
    /\ color[1] = "#"
    /\ \A i \in 2..4 : color[i] \in HexDigits

\* /(^#[0-9A-F]{6}$)|(^#[0-9A-F]{3}$)/i.test(color)
isHex(color) ==
    /\ Len(color) \in {4, 7}
    /\ color[1] = "#"
    /\ \A i \in 2..Len(color) : color[i] \in HexDigits

(* ----------------------------- constructor ------------------------------ *)

\* this.defaultColors = ['#ffffff', '#6420e5', '#79e865', '#e81e6b']
defaultColors ==
    << <<"#", "f", "f", "f", "f", "f", "f">>,
       <<"#", "6", "4", "2", "0", "e", "5">>,
       <<"#", "7", "9", "e", "8", "6", "5">>,
       <<"#", "e", "8", "1", "e", "6", "b">> >>

\* this.defaultLayers, all three sharing the resolved palette; a layer built
\* by the constructor has no `stars` property.
defaultLayers(colors) ==
    << [size |-> 3, speed |-> [x |-> 0, y |-> (5 * Unit) \div 10],
        density |-> Undefined, colors |-> Some(colors), stars |-> Undefined],
       [size |-> 2, speed |-> [x |-> 0, y |-> (3 * Unit) \div 10],
        density |-> Undefined, colors |-> Some(colors), stars |-> Undefined],
       [size |-> 1, speed |-> [x |-> 0, y |-> (2 * Unit) \div 10],
        density |-> Undefined, colors |-> Some(colors), stars |-> Undefined] >>

\* colors = (Array.isArray(colors)) ? colors : [].concat(colors)
\* An argument is [array |-> BOOLEAN, items |-> tokens]; a lone token is
\* [array |-> FALSE, items |-> <<token>>].
asArray(colorsArg) == IF colorsArg.array THEN colorsArg.items ELSE <<colorsArg.items[1]>>

\* for (let color in colors) { if (!_.isHex(colors[color])) errors.push(...) }
RECURSIVE invalidColors(_, _)
invalidColors(colors, i) ==
    IF i > Len(colors) THEN << >>
    ELSE IF ~isHex(colors[i])
         THEN <<colors[i]>> \o invalidColors(colors, i + 1)
         ELSE invalidColors(colors, i + 1)

\* A merge that puts the defaults after the supplied layers.
resolveLayersDefaultsLast(layersArg, mergeLayers, colors) ==
    IF ~IsDefined(layersArg) THEN defaultLayers(colors)
    ELSE IF mergeLayers THEN layersArg[1] \o defaultLayers(colors)
    ELSE layersArg[1]

\* this.layers = !layers ? this.defaultLayers
\*             : mergeLayers ? this.defaultLayers.concat(layers) : layers
resolveLayers(layersArg, mergeLayers, colors) ==
    IF ~IsDefined(layersArg) THEN defaultLayers(colors)
    ELSE IF mergeLayers THEN defaultLayers(colors) \o layersArg[1]
    ELSE layersArg[1]

\* The constructor's body, the container having been found: the fields it
\* leaves on `this` and the value its return statement gives (`return false`
\* at l.172 when a color is invalid, no return statement otherwise).
constructor(colorsArg, layersArg, mergeLayers, cw, ch) ==
    LET given  == IsDefined(colorsArg)
        list   == IF given THEN asArray(colorsArg[1]) ELSE << >>
        errs   == invalidColors(list, 1)
        colors == IF given THEN list ELSE defaultColors
    IN  IF given /\ Len(errs) > 0
        THEN [errors |-> errs, colors |-> Undefined, layers |-> Undefined,
              width |-> Undefined, height |-> Undefined, returned |-> Some(FALSE)]
        ELSE [errors |-> errs, colors |-> Some(colors),
              layers |-> Some(resolveLayers(layersArg, mergeLayers, colors)),
              width |-> Some(cw), height |-> Some(ch), returned |-> Undefined]

\* `new Parallax(...)`: Parallax is a base class (l.118), so the expression
\* evaluates to the value its constructor returns only when that is an
\* object; a primitive (false) or no return statement gives the object the
\* constructor was filling in.
newParallax(returned) ==
    IF IsDefined(returned) /\ returned[1] \notin BOOLEAN THEN "returned value" ELSE "this"

(* ------------------------- isInside and area --------------------------- *)

fadeDistance == 10

\* An inside test that takes the far edges of the fade margin in.
isInsideClosed(x, y, width, height) ==
    (x > 0 /\ x <= (width + fadeDistance) * Unit) /\ (y > 0 /\ y <= (height + fadeDistance) * Unit)

\* isInside(x, y), x and y in 1/Unit
isInside(x, y, width, height) ==
    (x > 0 /\ x < (width + fadeDistance) * Unit) /\ (y > 0 /\ y < (height + fadeDistance) * Unit)

\* get area ()
area(width, height) == width * height

(* ------------------------------ calculate ------------------------------ *)

\* _.random(-10, this.width, ...): the lower born of a generated coordinate.
spawnMin == -10

\* density = this.layers[o].density || 1/5000; a density is num/den.
defaultDensity == [num |-> 1, den |-> 5000]

densityOf(layer) ==
    IF IsDefined(layer.density) /\ layer.density[1].num # 0 THEN layer.density[1]
    ELSE defaultDensity

\* A loop that stops one star early: i + 1 <= density * this.area
moreStarsTruncated(i, density, a) == (i + 1) * density.den <= density.num * a

\* i < density * this.area
moreStars(i, density, a) == i * density.den < density.num * a

\* Stars a thousand times faster: speed: { x: 0, y: Math.random() * 50 }
starSpeedFast(tape, k) == [x |-> 0, y |-> (MathRandom(tape, k) * 50 * Unit) \div RandDen]

\* speed: { x: 0, y: Math.random() * .05 }
starSpeed(tape, k) == [x |-> 0, y |-> (MathRandom(tape, k) * 5 * Unit) \div (RandDen * 100)]

\* The inner loop of calculate() from index i; acc carries the stars pushed
\* so far, `previous` and the number of Math.random() calls made.
RECURSIVE calculateStars(_, _, _, _, _, _, _)
calculateStars(layer, palette, width, height, i, acc, tape) ==
    IF moreStars(i, densityOf(layer), area(width, height))
    THEN LET rx   == random(spawnMin, width, acc.previous.x, tape, acc.k)
             ry   == random(spawnMin, height, acc.previous.y, tape, acc.k + rx.used)
             kc   == acc.k + rx.used + ry.used
             star == [x |-> rx.value, y |-> ry.value,
                      color |-> pick(IF IsDefined(layer.colors) THEN layer.colors[1] ELSE palette,
                                     tape, kc),
                      speed |-> starSpeed(tape, kc + 1)]
         IN  calculateStars(layer, palette, width, height, i + 1,
                            [stars    |-> Append(acc.stars, star),
                             previous |-> [x |-> PrevNumber(star.x), y |-> PrevNumber(star.y)],
                             k        |-> kc + 2],
                            tape)
    ELSE acc

\* The outer loop of calculate() from layer o.
RECURSIVE calculateLayers(_, _, _, _, _, _, _, _)
calculateLayers(layers, palette, width, height, o, previous, k, tape) ==
    IF o > Len(layers) THEN layers
    ELSE LET acc == calculateStars(layers[o], palette, width, height, 0,
                                   [stars |-> << >>, previous |-> previous, k |-> k], tape)
         IN  calculateLayers([layers EXCEPT ![o].stars = Some(acc.stars)],
                             palette, width, height, o + 1, acc.previous, acc.k, tape)

\* calculate(): previous = { x: null, y: null }
calculate(layers, palette, width, height, tape) ==
    calculateLayers(layers, palette, width, height, 1, [x |-> PrevNull, y |-> PrevNull], 1, tape)

(* ------------------------------- update -------------------------------- *)

\* star.y = 1
respawnY == 1

\* An update that forgets the star's own speed.
updateStarLayerSpeedOnly(star, layer, width, height, tape, k) ==
    IF isInside(star.x, star.y, width, height)
    THEN [star |-> [star EXCEPT !.x = @ + layer.speed.x, !.y = @ + layer.speed.y], used |-> 0]
    ELSE LET r == random(0, width, PrevUndefined, tape, k)
         IN  [star |-> [star EXCEPT !.x = r.value, !.y = respawnY * Unit], used |-> r.used]

\* An update that gives a respawned star a new speed of its own (none).
updateStarResetsSpeed(star, layer, width, height, tape, k) ==
    IF isInside(star.x, star.y, width, height)
    THEN [star |-> [star EXCEPT !.x = @ + layer.speed.x + star.speed.x,
                                !.y = @ + layer.speed.y + star.speed.y],
          used |-> 0]
    ELSE LET r == random(0, width, PrevUndefined, tape, k)
         IN  [star |-> [star EXCEPT !.x = r.value, !.y = respawnY * Unit, !.speed.y = 0],
              used |-> r.used]

\* One star of update(): [star, used].
updateStar(star, layer, width, height, tape, k) ==
    IF isInside(star.x, star.y, width, height)
    THEN [star |-> [star EXCEPT !.x = @ + layer.speed.x + star.speed.x,
                                !.y = @ + layer.speed.y + star.speed.y],
          used |-> 0]
    ELSE LET r == random(0, width, PrevUndefined, tape, k)
         IN  [star |-> [star EXCEPT !.x = r.value, !.y = respawnY * Unit], used |-> r.used]

RECURSIVE updateStars(_, _, _, _, _, _, _)
updateStars(stars, layer, width, height, i, tape, k) ==
    IF i > Len(stars) THEN [stars |-> stars, k |-> k]
    ELSE LET u == updateStar(stars[i], layer, width, height, tape, k)
         IN  updateStars([stars EXCEPT ![i] = u.star], layer, width, height, i + 1, tape, k + u.used)

\* update(): [layers, threw]; this.layers[o].stars.length throws a TypeError
\* when the layer has no stars property, the layers before it being updated.
RECURSIVE updateLayers(_, _, _, _, _, _)
updateLayers(layers, width, height, o, tape, k) ==
    IF o > Len(layers) THEN [layers |-> layers, threw |-> FALSE]
    ELSE IF ~IsDefined(layers[o].stars) THEN [layers |-> layers, threw |-> TRUE]
    ELSE LET u == updateStars(layers[o].stars[1], layers[o], width, height, 1, tape, k)
         IN  updateLayers([layers EXCEPT ![o].stars = Some(u.stars)], width, height, o + 1, tape, u.k)

update(layers, width, height, tape) == updateLayers(layers, width, height, 1, tape, 1)

(* ------------------------------- render -------------------------------- *)

\* A rectangle one pixel wide and high whatever the layer's size:
\* fillRect(star.x, star.y, 1, 1)
fillRectOnePixel(star, layer) ==
    [x |-> star.x, y |-> star.y, w |-> 1, h |-> 1, fillStyle |-> star.color]

\* fillStyle = star.color; fillRect(star.x, star.y, layer.size, layer.size)
fillRect(star, layer) ==
    [x |-> star.x, y |-> star.y, w |-> layer.size, h |-> layer.size, fillStyle |-> star.color]

\* render(): [draws, threw]; the fillRect calls in order, up to a layer
\* whose stars property is missing (layer.stars.length throws).
RECURSIVE renderLayers(_, _, _)
renderLayers(layers, o, draws) ==
    IF o > Len(layers) THEN [draws |-> draws, threw |-> FALSE]
    ELSE IF ~IsDefined(layers[o].stars) THEN [draws |-> draws, threw |-> TRUE]
    ELSE renderLayers(layers, o + 1,
                      draws \o [i \in 1..Len(layers[o].stars[1]) |->
                                    fillRect(layers[o].stars[1][i], layers[o])])

render(layers) == renderLayers(layers, 1, << >>)

(* ------------------------------ the inputs ----------------------------- *)

Token_ff0000 == <<"#", "f", "f", "0", "0", "0", "0">>

Token_0F0 == <<"#", "0", "F", "0">>

Token_FFF == <<"#", "F", "F", "F">>

Token_12 == <<"#", "1", "2">>

Token_red == <<"r", "e", "d">>

Token_gggggg == <<"#", "g", "g", "g", "g", "g", "g">>

Token_notacolor == <<"n", "o", "t", "a", "c", "o", "l", "o", "r">>

Token_ffffff == <<"#", "f", "f", "f", "f", "f", "f">>

Token_aB09cF == <<"#", "a", "B", "0", "9", "c", "F">>

Token_ffff == <<"#", "f", "f", "f", "f">>

Token_1234567 == <<"#", "1", "2", "3", "4", "5", "6", "7">>

Token_0fff == <<"0", "f", "f", "f">>

Token_fffffg == <<"#", "f", "f", "f", "f", "f", "g">>

\* The `colors` argument of the constructor.
ColorArgs ==
    { Undefined,
      Some([array |-> TRUE,  items |-> <<Token_ff0000, Token_notacolor>>]) }

\* More of them, for the specification of the constructor alone.
AllColorArgs ==
    ColorArgs \cup
    { Some([array |-> TRUE,  items |-> <<Token_ff0000, Token_0F0>>]),
      Some([array |-> TRUE,  items |-> <<Token_12, Token_FFF, Token_red, Token_gggggg>>]),
      Some([array |-> TRUE,  items |-> <<Token_notacolor, Token_0F0, Token_12>>]),
      Some([array |-> TRUE,  items |-> <<Token_ffffff, Token_aB09cF>>]),
      Some([array |-> TRUE,  items |-> <<Token_ffff, Token_1234567, Token_0fff, Token_fffffg>>]),
      Some([array |-> FALSE, items |-> <<Token_FFF>>]),
      Some([array |-> FALSE, items |-> <<Token_red>>]) }

\* Two custom layers: a fast one with its own density and no colors, and one
\* drifting left with its own colors and no density.
LayerA ==
    [size |-> 4, speed |-> [x |-> 0, y |-> 15 * Unit],
     density |-> Some([num |-> 1, den |-> 256]), colors |-> Undefined, stars |-> Undefined]

LayerB ==
    [size |-> 1, speed |-> [x |-> (-12) * Unit, y |-> Unit \div 4],
     density |-> Undefined, colors |-> Some(<<Token_FFF>>), stars |-> Undefined]

\* The `layers` argument of the constructor.
LayerArgs == { Undefined, Some(<<LayerA, LayerB>>) }

AllLayerArgs == LayerArgs \cup { Some(<< >>), Some(<<LayerA>>), Some(<<LayerB, LayerA>>) }

\* The computed width and height of the container, in pixels.
Containers == { [w |-> 32, h |-> 16], [w |-> 32, h |-> 24] }

(* ------------------------------- the state ----------------------------- *)

VARIABLES
    args,        \* the arguments the constructor was called with
    returned,    \* the value the constructor's return statement gave
    result,      \* what `new Parallax(...)` evaluated to
    errors,      \* this.errors.colors
    colors,      \* this.colors
    layers,      \* this.layers
    canvas,      \* this.canvas (and this.context): its width and height
    width,       \* this.width
    height,      \* this.height
    running,     \* this.running
    restarted,   \* this.restarted
    container,   \* the container's computed size, as last measured
    pending,     \* frame callbacks requested and not yet fired (the host's)
    lastOp,      \* the last operation: its name, the calls it made, whether it threw
    before,      \* this.layers as the last operation's update() call found it
    drawn,       \* the fillRect calls of the last operation
    age,         \* update() calls applied since the stars were last generated
    everPaused,  \* whether pause() has been called
    everStarted, \* whether start() has been called
    peer         \* a second instance built from the same `layers` argument, if any

vars == <<args, returned, result, errors, colors, layers, canvas, width, height,
          running, restarted, container, pending, lastOp, before, drawn, age, everPaused,
          everStarted, peer>>

\* A constructor that ends by starting the loop.
InitFromStarted(CA, LA, MA, CS) ==
    \E ca \in CA, la \in LA, m \in MA, c \in CS :
        LET this == constructor(ca, la, m, c.w, c.h) IN
        /\ args = [colors |-> ca, layers |-> la, mergeLayers |-> m]
        /\ returned = this.returned
        /\ result = newParallax(this.returned)
        /\ errors = this.errors
        /\ colors = this.colors
        /\ layers = this.layers
        /\ canvas = IF IsDefined(this.width) THEN Some([width |-> c.w, height |-> c.h])
                    ELSE Undefined
        /\ width = this.width
        /\ height = this.height
        /\ running = Some(TRUE)
        /\ restarted = Undefined
        /\ container = c
        /\ pending = 1
        /\ lastOp = [op |-> "new", steps |-> << >>, threw |-> FALSE]
        /\ before = Undefined
        /\ drawn = << >>
        /\ age = 0
        /\ everPaused = FALSE
        /\ everStarted = FALSE
        /\ peer = Undefined

\* The state `new Parallax(selector, ca, la, m)` leaves, for arguments and a
\* container size drawn from the given sets.
InitFrom(CA, LA, MA, CS) ==
    \E ca \in CA, la \in LA, m \in MA, c \in CS :
        LET this == constructor(ca, la, m, c.w, c.h) IN
        /\ args = [colors |-> ca, layers |-> la, mergeLayers |-> m]
        /\ returned = this.returned
        /\ result = newParallax(this.returned)
        /\ errors = this.errors
        /\ colors = this.colors
        /\ layers = this.layers
        /\ canvas = IF IsDefined(this.width) THEN Some([width |-> c.w, height |-> c.h])
                    ELSE Undefined
        /\ width = this.width
        /\ height = this.height
        /\ running = Undefined
        /\ restarted = Undefined
        /\ container = c
        /\ pending = 0
        /\ lastOp = [op |-> "new", steps |-> << >>, threw |-> FALSE]
        /\ before = Undefined
        /\ drawn = << >>
        /\ age = 0
        /\ everPaused = FALSE
        /\ everStarted = FALSE
        /\ peer = Undefined

Init == InitFrom(ColorArgs, LayerArgs, BOOLEAN, Containers)

\* Construction over the wider sets of arguments.
InitNew == InitFrom(AllColorArgs, AllLayerArgs, BOOLEAN, Containers)

(* --------------------------- the operations ---------------------------- *)

\* The fields an operation works on, with the calls it has made so far; once
\* a call has thrown, the calls after it do not happen.
Fields ==
    [layers |-> layers, canvas |-> canvas, width |-> width, height |-> height,
     running |-> running, restarted |-> restarted, pending |-> pending,
     container |-> container, steps |-> << >>, threw |-> FALSE, drawn |-> << >>,
     before |-> Undefined, age |-> age]

\* calculate(): this.layers.length throws when the constructor stopped early.
doCalculate(f, tape) ==
    IF f.threw THEN f
    ELSE IF ~IsDefined(f.layers)
         THEN [f EXCEPT !.steps = Append(@, "calculate"), !.threw = TRUE]
         ELSE [f EXCEPT !.steps = Append(@, "calculate"),
                        !.layers = Some(calculate(f.layers[1], colors[1],
                                                  f.width[1], f.height[1], tape)),
                        !.age = 0]

\* update()
doUpdate(f, tape) ==
    IF f.threw THEN f
    ELSE IF ~IsDefined(f.layers)
         THEN [f EXCEPT !.steps = Append(@, "update"), !.threw = TRUE]
         ELSE LET u == update(f.layers[1], f.width[1], f.height[1], tape)
              IN  [f EXCEPT !.steps = Append(@, "update"),
                            !.before = f.layers,
                            !.layers = Some(u.layers),
                            !.threw = u.threw,
                            !.age = IF u.threw THEN @ ELSE @ + 1]

\* clear(): this.context.clearRect(0, 0, this.width, this.height)
doClear(f) ==
    IF f.threw THEN f
    ELSE IF ~IsDefined(f.canvas)
         THEN [f EXCEPT !.steps = Append(@, "clear"), !.threw = TRUE]
         ELSE [f EXCEPT !.steps = Append(@, "clear")]

\* render()
doRender(f) ==
    IF f.threw THEN f
    ELSE IF ~IsDefined(f.layers)
         THEN [f EXCEPT !.steps = Append(@, "render"), !.threw = TRUE]
         ELSE LET r == render(f.layers[1])
              IN  [f EXCEPT !.steps = Append(@, "render"), !.drawn = r.draws, !.threw = r.threw]

\* window.requestAnimationFrame(loop)
doRequestAnimationFrame(f) ==
    IF f.threw THEN f
    ELSE [f EXCEPT !.steps = Append(@, "requestAnimationFrame"), !.pending = @ + 1]

\* A loop that does not look at this.running.
loopUnconditional(f, tape) ==
    IF f.threw THEN f
    ELSE doRender(doUpdate(doClear(doRequestAnimationFrame(f)), tape))

\* function loop () of start()
loop(f, tape) ==
    IF f.threw \/ ~Truthy(f.running) THEN f
    ELSE doRender(doUpdate(doClear(doRequestAnimationFrame(f)), tape))

\* A resize that measures the width and keeps the old height.
doResizeWidthOnly(f, c, tape) ==
    IF ~IsDefined(f.canvas)
    THEN [f EXCEPT !.steps = Append(@, "resize"), !.threw = TRUE]
    ELSE doCalculate([f EXCEPT !.container = c, !.width = Some(c.w),
                               !.canvas = Some([width |-> c.w, height |-> f.height[1]])],
                     tape)

\* resize(), the container's computed size being c when it is called:
\* this.canvas.width = ... throws when there is no canvas.
doResize(f, c, tape) ==
    IF ~IsDefined(f.canvas)
    THEN [f EXCEPT !.steps = Append(@, "resize"), !.threw = TRUE]
    ELSE doCalculate([f EXCEPT !.container = c,
                               !.width = Some(c.w),
                               !.height = Some(c.h),
                               !.canvas = Some([width |-> c.w, height |-> c.h])],
                     tape)

\* if (!this.restarted) { this.calculate(); this.restarted = false; }
startSeed(f, tape) ==
    IF ~Truthy(f.restarted)
    THEN LET c == doCalculate(f, tape)
         IN  IF c.threw THEN c ELSE [c EXCEPT !.restarted = Some(FALSE)]
    ELSE f

\* start()
doStart(f, tape) == loop(startSeed([f EXCEPT !.running = Some(TRUE)], tape), tape)

\* A pause that does not note that the loop was paused.
doPauseOnly(f) == [f EXCEPT !.running = Some(FALSE)]

\* pause()
doPause(f) == [f EXCEPT !.running = Some(FALSE), !.restarted = Some(TRUE)]

\* A frame callback fires: the host takes it off its queue and calls loop.
doFrame(f, tape) == loop([f EXCEPT !.pending = @ - 1], tape)

(* ------------------------------ the actions ---------------------------- *)

\* The state after operation `op` that ended with the fields f.
Commit(op, f) ==
    /\ f.age <= MaxAge
    /\ f.pending <= MaxPending
    /\ layers' = f.layers
    /\ canvas' = f.canvas
    /\ width' = f.width
    /\ height' = f.height
    /\ running' = f.running
    /\ restarted' = f.restarted
    /\ pending' = f.pending
    /\ lastOp' = [op |-> op, steps |-> f.steps, threw |-> f.threw]
    /\ before' = f.before
    /\ drawn' = f.drawn
    /\ age' = f.age
    /\ container' = f.container
    /\ UNCHANGED <<args, returned, result, errors, colors, peer>>

Calculate == \E tape \in Tapes : Commit("calculate", doCalculate(Fields, tape)) /\ UNCHANGED <<everPaused, everStarted>>

Update == \E tape \in Tapes : Commit("update", doUpdate(Fields, tape)) /\ UNCHANGED <<everPaused, everStarted>>

Render == Commit("render", doRender(Fields)) /\ UNCHANGED <<everPaused, everStarted>>

Clear == Commit("clear", doClear(Fields)) /\ UNCHANGED <<everPaused, everStarted>>

Resize ==
    /\ \E c \in Containers, tape \in Tapes : Commit("resize", doResize(Fields, c, tape))
    /\ UNCHANGED <<everPaused, everStarted>>

Start ==
    /\ \E tape \in Tapes : Commit("start", doStart(Fields, tape))
    /\ everStarted' = TRUE
    /\ UNCHANGED everPaused

Pause == Commit("pause", doPause(Fields)) /\ everPaused' = TRUE /\ UNCHANGED everStarted

Frame ==
    /\ pending > 0
    /\ \E tape \in Tapes : Commit("frame", doFrame(Fields, tape))
    /\ UNCHANGED <<everPaused, everStarted>>

Next ==
    \/ Calculate
    \/ Update
    \/ Render
    \/ Clear
    \/ Resize
    \/ Start
    \/ Pause
    \/ Frame

Spec == Init /\ [][Next]_vars

\* Construction, then what reads the layers it resolved.
NextNew ==
    \/ Calculate
    \/ Render

SpecNew == InitNew /\ [][NextNew]_vars

(* ---------------------------- two instances ---------------------------- *)

\* The layers of a second instance built from the same `layers` argument as
\* the first. `this.layers = layers` and `this.defaultLayers.concat(layers)`
\* (l.185) copy no layer: the last n elements of the resolved list r are the
\* caller's own layer objects, which the first instance holds as the last n
\* of its lenA layers. `at` is the index in the first instance's layers of
\* the object an element refers to, 0 for an object of the second instance
\* alone (a default layer), which `layer` then holds.
shareLayers(r, n, lenA) ==
    [k \in 1..Len(r) |->
        [at    |-> IF k > Len(r) - n THEN lenA - n + (k - (Len(r) - n)) ELSE 0,
         layer |-> r[k]]]

\* Two constructions with no colors and the same `layers` argument, each
\* with its own mergeLayers flag, in two containers of the same size.
InitTwo ==
    \E la \in LayerArgs, m \in BOOLEAN, m2 \in BOOLEAN, c \in Containers :
        LET this == constructor(Undefined, la, m, c.w, c.h)
            that == constructor(Undefined, la, m2, c.w, c.h)
            n    == IF IsDefined(la) THEN Len(la[1]) ELSE 0
        IN
        /\ args = [colors |-> Undefined, layers |-> la, mergeLayers |-> m]
        /\ returned = this.returned
        /\ result = newParallax(this.returned)
        /\ errors = this.errors
        /\ colors = this.colors
        /\ layers = this.layers
        /\ canvas = Some([width |-> c.w, height |-> c.h])
        /\ width = this.width
        /\ height = this.height
        /\ running = Undefined
        /\ restarted = Undefined
        /\ container = c
        /\ pending = 0
        /\ lastOp = [op |-> "new", steps |-> << >>, threw |-> FALSE]
        /\ before = Undefined
        /\ drawn = << >>
        /\ age = 0
        /\ everPaused = FALSE
        /\ everStarted = FALSE
        /\ peer = Some([layers |-> shareLayers(that.layers[1], n, Len(this.layers[1])),
                        colors |-> that.colors[1],
                        width  |-> that.width[1],
                        height |-> that.height[1],
                        age    |-> 0])

\* this.layers of the second instance: each element is the object it refers to.
PeerLayers ==
    [k \in 1..Len(peer[1].layers) |->
        IF peer[1].layers[k].at > 0
        THEN layers[1][peer[1].layers[k].at]
        ELSE peer[1].layers[k].layer]

\* The second instance has left its layers as ls, n update() calls after it
\* last generated its stars: what it wrote to a layer object is written to
\* that object, whichever instances hold it.
PeerWrites(ls, n) ==
    /\ layers' = Some([o \in 1..Len(layers[1]) |->
                          IF \E k \in 1..Len(ls) : peer[1].layers[k].at = o
                          THEN ls[CHOOSE k \in 1..Len(ls) : peer[1].layers[k].at = o]
                          ELSE layers[1][o]])
    /\ peer' = Some([peer[1] EXCEPT !.age = n,
                                     !.layers =
                                        [k \in 1..Len(ls) |->
                                            IF peer[1].layers[k].at = 0
                                            THEN [at |-> 0, layer |-> ls[k]]
                                            ELSE peer[1].layers[k]]])

\* calculate() on the second instance
PeerCalculate ==
    /\ IsDefined(peer)
    /\ \E tape \in Tapes :
          PeerWrites(calculate(PeerLayers, peer[1].colors, peer[1].width, peer[1].height, tape),
                     0)
    /\ lastOp' = [op |-> "peer.calculate", steps |-> <<"calculate">>, threw |-> FALSE]
    /\ before' = Undefined
    /\ drawn' = << >>
    /\ UNCHANGED <<age, args, returned, result, errors, colors, canvas, width, height, running,
                   restarted, container, pending, everPaused, everStarted>>

\* update() on the second instance
PeerUpdate ==
    /\ IsDefined(peer)
    /\ peer[1].age < MaxAge
    /\ \E tape \in Tapes :
          LET u == update(PeerLayers, peer[1].width, peer[1].height, tape)
          IN  /\ PeerWrites(u.layers, IF u.threw THEN peer[1].age ELSE peer[1].age + 1)
              /\ lastOp' = [op |-> "peer.update", steps |-> <<"update">>, threw |-> u.threw]
    /\ before' = Undefined
    /\ drawn' = << >>
    /\ UNCHANGED <<age, args, returned, result, errors, colors, canvas, width, height, running,
                   restarted, container, pending, everPaused, everStarted>>

NextTwo ==
    \/ Calculate
    \/ Update
    \/ PeerCalculate
    \/ PeerUpdate

SpecTwo == InitTwo /\ [][NextTwo]_vars

(* ------------------------------ properties ----------------------------- *)

\* The calls the last operation made.
Steps == {lastOp.steps[i] : i \in 1..Len(lastOp.steps)}

\* The last operation ran calculate() to its end.
Calculated == "calculate" \in Steps /\ ~lastOp.threw

\* The last operation ran update() to its end.
Updated == "update" \in Steps /\ ~lastOp.threw

\* The density a layer asks for, 1/5000 when it gives none.
ClaimedDensity(layer) ==
    IF IsDefined(layer.density) THEN layer.density[1] ELSE [num |-> 1, den |-> 5000]

\* n = floor(density * a)
IsFloorOf(n, density, a) == n * density.den <= density.num * a /\ density.num * a < (n + 1) * density.den

\* n = ceil(density * a)
IsCeilOf(n, density, a) == (n - 1) * density.den < density.num * a /\ density.num * a <= n * density.den

\* C1 as the spec states it: calculate() leaves each layer with exactly
\* floor(density * width * height) stars.
C1_FloorCount ==
    Calculated =>
        \A o \in 1..Len(layers[1]) :
            IsFloorOf(Len(layers[1][o].stars[1]), ClaimedDensity(layers[1][o]), width[1] * height[1])

\* C1 amended: calculate() leaves each layer with exactly
\* ceil(density * width * height) stars, the loop running while
\* i < density * area; that is one more than the floor whenever
\* density * area is not a whole number.
C1_CeilCount ==
    Calculated =>
        \A o \in 1..Len(layers[1]) :
            IsCeilOf(Len(layers[1][o].stars[1]), ClaimedDensity(layers[1][o]), width[1] * height[1])

\* calculate() has run where one layer's density * area is a whole number
\* (two stars or more) and another's is not.
C1_Witness ==
    /\ Calculated
    /\ \E o \in 1..Len(layers[1]) :
          /\ Len(layers[1][o].stars[1]) >= 2
          /\ IsFloorOf(Len(layers[1][o].stars[1]), ClaimedDensity(layers[1][o]), width[1] * height[1])
    /\ \E o \in 1..Len(layers[1]) :
          ~IsFloorOf(Len(layers[1][o].stars[1]), ClaimedDensity(layers[1][o]), width[1] * height[1])

\* 0 < x < width + 10 and 0 < y < height + 10, x and y in 1/Unit, w and h in pixels
ClaimedInside(x, y, w, h) == 0 < x /\ x < (w + 10) * Unit /\ 0 < y /\ y < (h + 10) * Unit

\* What update() does to star s of a layer, giving t, on a w by h surface.
MovedOrRespawned(s, t, layer, w, h) ==
    IF ClaimedInside(s.x, s.y, w, h)
    THEN t.x = s.x + layer.speed.x + s.speed.x /\ t.y = s.y + layer.speed.y + s.speed.y
    ELSE t.y = 1 * Unit /\ 0 <= t.x /\ t.x <= w * Unit

\* C2: after one update() call, every star that was inside the surface has
\* moved by exactly (layer.speed.x + star.speed.x, layer.speed.y +
\* star.speed.y), and every star that was not has been relocated to y = 1
\* with 0 <= x <= width.
C2_UpdateMovesOrRespawns ==
    Updated =>
        \A o \in 1..Len(layers[1]) :
            /\ Len(layers[1][o].stars[1]) = Len(before[1][o].stars[1])
            /\ \A i \in 1..Len(before[1][o].stars[1]) :
                   MovedOrRespawned(before[1][o].stars[1][i], layers[1][o].stars[1][i],
                                    layers[1][o], width[1], height[1])

\* update() has found one star inside with a speed of its own, and one outside.
C2_Witness ==
    /\ lastOp.op = "update"
    /\ Updated
    /\ \E o \in 1..Len(before[1]) : \E i \in 1..Len(before[1][o].stars[1]) :
          /\ ClaimedInside(before[1][o].stars[1][i].x, before[1][o].stars[1][i].y, width[1], height[1])
          /\ before[1][o].stars[1][i].speed.y > 0
    /\ \E o \in 1..Len(before[1]) : \E i \in 1..Len(before[1][o].stars[1]) :
          ~ClaimedInside(before[1][o].stars[1][i].x, before[1][o].stars[1][i].y, width[1], height[1])

\* The points isInside is asked about: where the stars are and were, and the
\* points on and next to the four edges of the inside region.
ProbePoints ==
    LET edge(n) == {-Unit, -1, 0, 1, Unit, n * Unit, (n + 10) * Unit - 1, (n + 10) * Unit,
                    (n + 10) * Unit + 1}
        at(ls)  == IF IsDefined(ls)
                   THEN UNION { IF IsDefined(ls[1][o].stars)
                                THEN {<<ls[1][o].stars[1][i].x, ls[1][o].stars[1][i].y>> :
                                          i \in 1..Len(ls[1][o].stars[1])}
                                ELSE {} : o \in 1..Len(ls[1]) }
                   ELSE {}
    IN  (edge(width[1]) \X edge(height[1])) \cup at(layers) \cup at(before)

\* C3: isInside(x, y) is true exactly when 0 < x < width + 10 and
\* 0 < y < height + 10; it is false when x = 0, x = width + 10, y = 0 or
\* y = height + 10.
C3_IsInsideOpenRectangle ==
    IsDefined(width) =>
        \A p \in ProbePoints :
            /\ isInside(p[1], p[2], width[1], height[1])
                   <=> (0 < p[1] /\ p[1] < (width[1] + 10) * Unit
                        /\ 0 < p[2] /\ p[2] < (height[1] + 10) * Unit)
            /\ (p[1] = 0 \/ p[1] = (width[1] + 10) * Unit \/ p[2] = 0 \/ p[2] = (height[1] + 10) * Unit)
                   => ~isInside(p[1], p[2], width[1], height[1])

\* update() has found a star exactly on the edge x = width + 10, its y being
\* inside, and has respawned it.
C3_Witness ==
    /\ Updated
    /\ \E o \in 1..Len(before[1]) : \E i \in 1..Len(before[1][o].stars[1]) :
          /\ before[1][o].stars[1][i].x = (width[1] + 10) * Unit
          /\ 0 < before[1][o].stars[1][i].y
          /\ before[1][o].stars[1][i].y < (height[1] + 10) * Unit
          /\ layers[1][o].stars[1][i].y = 1 * Unit

\* A layer as configured, its stars left out.
Configured(layer) == [layer EXCEPT !.stars = Undefined]

\* Every layer has a stars array.
Seeded(ls) == IsDefined(ls) /\ \A o \in 1..Len(ls[1]) : IsDefined(ls[1][o].stars)

\* The stars of ls2 are those of ls1 after one update(): the same layers, the
\* same number of stars with their colors and speeds, each moved or respawned.
OneUpdateApart(ls1, ls2, w, h) ==
    /\ Len(ls2[1]) = Len(ls1[1])
    /\ \A o \in 1..Len(ls1[1]) :
          /\ Configured(ls2[1][o]) = Configured(ls1[1][o])
          /\ Len(ls2[1][o].stars[1]) = Len(ls1[1][o].stars[1])
          /\ \A i \in 1..Len(ls1[1][o].stars[1]) :
                 /\ ls2[1][o].stars[1][i].color = ls1[1][o].stars[1][i].color
                 /\ ls2[1][o].stars[1][i].speed = ls1[1][o].stars[1][i].speed
                 /\ MovedOrRespawned(ls1[1][o].stars[1][i], ls2[1][o].stars[1][i],
                                     ls1[1][o], w, h)

\* C4 as the spec states it: start() runs calculate() only when no pause()
\* has been called before it, and every start() that follows a pause()
\* leaves the star positions as they were and does not run calculate().
C4_StartAfterPauseLeavesPositions ==
    [][lastOp'.op = "start" =>
          /\ ("calculate" \in Steps') => ~everPaused
          /\ everPaused => ("calculate" \notin Steps' /\ layers' = layers)]_vars

\* C4 amended: start() runs calculate() exactly when no pause() has been
\* called before it; a start() that follows a pause() does not run
\* calculate() and keeps every star with its color and speed, but runs the
\* first tick at once, so that each position is one update() further (moved
\* by the speeds if the star was inside, respawned if not).
C4_StartAfterPauseAdvancesOneUpdate ==
    [][lastOp'.op = "start" =>
          /\ ("calculate" \in Steps') <=> ~everPaused
          /\ everPaused =>
                IF Seeded(layers)
                THEN ~lastOp'.threw /\ OneUpdateApart(layers, layers', width[1], height[1])
                ELSE layers' = layers]_vars

\* start() has been called after a pause() on seeded layers with a star
\* inside the surface.
C4_Witness ==
    /\ lastOp.op = "start"
    /\ everPaused
    /\ Updated
    /\ \E o \in 1..Len(before[1]) : \E i \in 1..Len(before[1][o].stars[1]) :
          ClaimedInside(before[1][o].stars[1][i].x, before[1][o].stars[1][i].y, width[1], height[1])

\* C5: at most one frame callback of the instance is outstanding at any time.
C5_AtMostOneOutstandingCallback == pending <= 1

\* C6: after pause() and as long as start() is not called again, at most one
\* more tick executes (none does: a callback that fires finds running false
\* and neither clears, updates nor renders), and a callback that fires
\* requests no further one, so that the number outstanding only falls.
C6_PauseStopsTheLoop ==
    [][(running = Some(FALSE) /\ lastOp'.op # "start") =>
          /\ pending' <= pending
          /\ running' = Some(FALSE)
          /\ lastOp'.op = "frame" =>
                (lastOp'.steps = << >> /\ pending' = pending - 1 /\ layers' = layers)]_vars

\* The last outstanding callback has fired while paused, after a tick had run.
C6_Witness ==
    /\ lastOp.op = "frame"
    /\ running = Some(FALSE)
    /\ pending = 0
    /\ lastOp.steps = << >>
    /\ age > 0

\* A star as calculate() makes it for a w by h surface: x in
\* [-10, w + 20), y in [-10, h + 20), no horizontal speed and a vertical
\* speed in [0, .05).
FreshStar(s, w, h) ==
    /\ -10 * Unit <= s.x /\ s.x < (w + 20) * Unit
    /\ -10 * Unit <= s.y /\ s.y < (h + 20) * Unit
    /\ s.speed.x = 0
    /\ 0 <= s.speed.y /\ s.speed.y * 100 < 5 * Unit

\* C7: resize() re-reads the surface width and height and re-runs
\* calculate() whatever the controller state: afterwards every layer's stars
\* are newly generated (no update() applied to them) and as many as the new
\* area asks for, and the running and restarted flags are unchanged.
C7_ResizeRecalculates ==
    [][(lastOp'.op = "resize" /\ IsDefined(canvas)) =>
          /\ width' = Some(container'.w) /\ height' = Some(container'.h)
          /\ canvas' = Some([width |-> container'.w, height |-> container'.h])
          /\ "calculate" \in Steps' /\ ~lastOp'.threw
          /\ age' = 0
          /\ Len(layers'[1]) = Len(layers[1])
          /\ \A o \in 1..Len(layers'[1]) :
                /\ Configured(layers'[1][o]) = Configured(layers[1][o])
                /\ IsDefined(layers'[1][o].stars)
                /\ IsCeilOf(Len(layers'[1][o].stars[1]), ClaimedDensity(layers'[1][o]),
                            container'.w * container'.h)
                /\ \A i \in 1..Len(layers'[1][o].stars[1]) :
                       FreshStar(layers'[1][o].stars[1][i], container'.w, container'.h)
          /\ running' = running
          /\ restarted' = restarted
          /\ pending' = pending]_vars

\* resize() has been called while Running, with a callback outstanding, on a
\* taller container: the fast layer now has three stars.
C7_Witness ==
    /\ lastOp.op = "resize"
    /\ running = Some(TRUE)
    /\ pending > 0
    /\ height = Some(24)
    /\ \E o \in 1..Len(layers[1]) :
          IsDefined(layers[1][o].density) /\ Len(layers[1][o].stars[1]) = 3

\* The three default layers: sizes 3, 2, 1, no horizontal speed, vertical
\* speeds .5, .3, .2, all with the instance's palette.
ClaimedDefaults(palette) ==
    [o \in 1..3 |->
        [size |-> 4 - o,
         speed |-> [x |-> 0, y |-> (<<5, 3, 2>>[o] * Unit) \div 10],
         density |-> Undefined, colors |-> Some(palette), stars |-> Undefined]]

\* C8: with no layers supplied the layers are the three defaults in order;
\* with layers supplied and mergeLayers true they are the three defaults
\* followed by the supplied layers in their order; with layers supplied and
\* mergeLayers false they are exactly the supplied layers.
C8_LayerResolution ==
    IsDefined(layers) =>
        LET got == [o \in 1..Len(layers[1]) |-> Configured(layers[1][o])]
        IN  /\ ~IsDefined(args.layers) => got = ClaimedDefaults(colors[1])
            /\ (IsDefined(args.layers) /\ args.mergeLayers) =>
                   got = ClaimedDefaults(colors[1]) \o args.layers[1]
            /\ (IsDefined(args.layers) /\ ~args.mergeLayers) => got = args.layers[1]

\* Two layers were supplied with mergeLayers true, and calculate() has run
\* on the five layers there are.
C8_Witness ==
    /\ IsDefined(args.layers) /\ args.mergeLayers /\ Len(args.layers[1]) = 2
    /\ IsDefined(layers) /\ Len(layers[1]) = 5
    /\ Calculated

\* C9: when colors are supplied and at least one token is not a valid hex
\* color, construction yields a non-instance result and the invalid-color
\* collection is exactly the invalid tokens in input order; when every token
\* is valid, construction does not fail and the collection is empty.
C9_InvalidColorsAbortConstruction ==
    IsDefined(args.colors) =>
        LET invalid == SelectSeq(args.colors[1].items, LAMBDA t : ~isHex(t))
        IN  IF invalid # << >>
            THEN result # "this" /\ errors = invalid
            ELSE result = "this" /\ errors = << >>

\* C10: update() and render() complete without a runtime error in every
\* state reachable after a successful construction.
C10_UpdateAndRenderNeverThrow ==
    IsDefined(layers) =>
        ~(lastOp.threw /\ lastOp.steps[Len(lastOp.steps)] \in {"update", "render"})

ClaimedHex(t) ==
    /\ Len(t) >= 1
    /\ t[1] = "#"
    /\ (Len(t) - 1 = 3 \/ Len(t) - 1 = 6)
    /\ \A i \in 2..Len(t) :
           t[i] \in {"0", "1", "2", "3", "4", "5", "6", "7", "8", "9",
                     "a", "b", "c", "d", "e", "f", "A", "B", "C", "D", "E", "F"}

\* The tokens isHex is asked about: the ones supplied, and a fixed sample.
ProbeTokens ==
    (IF IsDefined(args.colors)
     THEN {args.colors[1].items[i] : i \in 1..Len(args.colors[1].items)} ELSE {})
    \cup {Token_FFF, Token_ffffff, Token_12, Token_red, Token_gggggg, Token_ffff,
          Token_1234567, Token_0fff, Token_fffffg, Token_aB09cF, <<"#">>, << >>}

\* C13: the color validator accepts a token exactly when it is '#' followed
\* by exactly 3 or exactly 6 hexadecimal digits (either case) and nothing
\* else; "#FFF" and "#ffffff" are valid, "#12", "red" and "#gggggg" are not.
\* The tokens the constructor reports are the supplied ones it rejects.
C13_HexValidator ==
    /\ \A t \in ProbeTokens : isHex(t) <=> ClaimedHex(t)
    /\ isHex(Token_FFF) /\ isHex(Token_ffffff)
    /\ ~isHex(Token_12) /\ ~isHex(Token_red) /\ ~isHex(Token_gggggg)
    /\ IsDefined(args.colors) =>
          \A i \in 1..Len(args.colors[1].items) :
              (\E j \in 1..Len(errors) : errors[j] = args.colors[1].items[i])
                  <=> ~ClaimedHex(args.colors[1].items[i])

\* The constructor was given '#' with four and with seven digits, a token
\* without '#' and one with a letter past f, and has reported all four.
C13_Witness ==
    /\ IsDefined(args.colors)
    /\ args.colors[1].items = <<Token_ffff, Token_1234567, Token_0fff, Token_fffffg>>
    /\ errors = args.colors[1].items


\* The steps of the tick the last operation ran: all the steps of a frame
\* callback, and those of start() after its calculate(), if it made one.
TickSteps ==
    IF lastOp.steps # << >> /\ Head(lastOp.steps) = "calculate"
    THEN Tail(lastOp.steps)
    ELSE lastOp.steps

\* C14: every tick that runs while the controller is Running requests the
\* next frame callback, then clears, then updates, then renders, each exactly
\* once and in that order; a frame callback that fires while the controller is
\* not Running performs none of the four steps.
C14_TickRunsFourStepsInOrder ==
    (IsDefined(layers) /\ lastOp.op \in {"start", "frame"}) =>
        IF Truthy(running)
        THEN TickSteps = <<"requestAnimationFrame", "clear", "update", "render">>
        ELSE TickSteps = << >>

\* C18: in every state in which the controller is Running, calculate() has
\* run since construction, so every layer has a seeded star array, whatever
\* the order of the start() and pause() calls.
C18_RunningImpliesSeeded ==
    (IsDefined(layers) /\ Truthy(running)) => Seeded(layers)

\* The elements of a sequence.
Elements(seq) == {seq[i] : i \in 1..Len(seq)}

\* The instance palette the claim names: the supplied colors, or the four
\* default colors when none were supplied.
ClaimedPalette == IF IsDefined(args.colors) THEN args.colors[1].items ELSE defaultColors

\* C15: after calculate(), the color of every star is an element of its
\* layer's own colors when the layer has one, and otherwise an element of the
\* instance palette (the supplied colors, or the four default colors).
C15_StarColorFromLayerOrPalette ==
    Seeded(layers) =>
        \A o \in 1..Len(layers[1]) :
            \A i \in 1..Len(layers[1][o].stars[1]) :
                LET layer == layers[1][o]
                    star  == layer.stars[1][i]
                IN  /\ IsDefined(star.color)
                    /\ star.color[1] \in (IF IsDefined(layer.colors)
                                          THEN Elements(layer.colors[1])
                                          ELSE Elements(ClaimedPalette))

\* calculate() has seeded an instance built with two supplied colors and the
\* custom layers merged after the defaults: a star of the layer with its own
\* colors has that layer's color, and stars of layers without colors have
\* taken both colors of the supplied palette.
C15_Witness ==
    /\ Calculated
    /\ Seeded(layers)
    /\ IsDefined(args.colors)
    /\ args.colors[1].items = <<Token_ffffff, Token_aB09cF>>
    /\ \E o \in 1..Len(layers[1]) :
          /\ IsDefined(layers[1][o].colors)
          /\ \E i \in 1..Len(layers[1][o].stars[1]) :
                layers[1][o].stars[1][i].color = Some(Token_FFF)
    /\ \A c \in {Token_ffffff, Token_aB09cF} :
          \E o \in 1..Len(layers[1]) :
              /\ ~IsDefined(layers[1][o].colors)
              /\ \E i \in 1..Len(layers[1][o].stars[1]) :
                    layers[1][o].stars[1][i].color = Some(c)

\* The stars of the layers ls from layer o on, in the order calculate()
\* generates them and render() draws them.
RECURSIVE StarsInOrder(_, _)
StarsInOrder(ls, o) ==
    IF o > Len(ls) THEN << >> ELSE ls[o].stars[1] \o StarsInOrder(ls, o + 1)

\* The coordinate v (in 1/Unit) the claim allows for a star generated on an
\* axis of length max after a star whose coordinate was prev (Undefined when
\* no star was generated before it in the pass): an integer base in
\* [-10, max], plus a jitter in [0, 20) exactly when there is a previous star
\* and the base is at least 25 away from it.
ClaimedCoordinate(v, prev, max) ==
    \E base \in spawnMin..max :
        IF IsDefined(prev) /\ Abs(base * Unit - prev[1]) >= spreadDefault * Unit
        THEN v - base * Unit \in 0..(jitterRange * Unit - 1)
        ELSE v = base * Unit

\* C16: in calculate(), a star's x (y) is an integer in [-10, width]
\* ([-10, height]) unless a star was generated before it in the same pass and
\* the base value is at least 25 away from that star's coordinate, in which
\* case a jitter in [0, 20) is added; the previous value carries over from the
\* last star of a layer to the first star of the next.
C16_CalculateCoordinates ==
    (Seeded(layers) /\ age = 0) =>
        LET st == StarsInOrder(layers[1], 1)
        IN  \A n \in 1..Len(st) :
                /\ ClaimedCoordinate(st[n].x, IF n = 1 THEN Undefined ELSE Some(st[n - 1].x),
                                     width[1])
                /\ ClaimedCoordinate(st[n].y, IF n = 1 THEN Undefined ELSE Some(st[n - 1].y),
                                     height[1])

\* The last operation ran render() to its end.
Rendered == "render" \in Steps /\ ~lastOp.threw

\* The number of stars in the layers before layer o.
StarsBefore(o) == Len(StarsInOrder(SubSeq(layers[1], 1, o - 1), 1))

\* C17: render() issues exactly one fill-rectangle per star, a square of side
\* layer.size at (star.x, star.y) in star.color, the layers in configured
\* order and the stars of a layer in array order, so that every draw of a
\* later layer comes after every draw of an earlier one.
C17_RenderDrawsEveryStarOnce ==
    (IsDefined(layers) /\ Rendered) =>
        /\ Len(drawn) = Len(StarsInOrder(layers[1], 1))
        /\ \A o \in 1..Len(layers[1]) :
              \A i \in 1..Len(layers[1][o].stars[1]) :
                  LET layer == layers[1][o]
                      star  == layer.stars[1][i]
                      rect  == drawn[StarsBefore(o) + i]
                  IN  /\ rect.x = star.x /\ rect.y = star.y
                      /\ rect.w = layer.size /\ rect.h = layer.size
                      /\ rect.fillStyle = star.color

\* render() has drawn an instance with at least two layers of different sizes
\* that have stars, one of them with two stars or more.
C17_Witness ==
    /\ IsDefined(layers)
    /\ lastOp.op = "render"
    /\ Rendered
    /\ \E o1, o2 \in 1..Len(layers[1]) :
          /\ o1 # o2
          /\ layers[1][o1].size # layers[1][o2].size
          /\ Len(layers[1][o1].stars[1]) >= 2
          /\ Len(layers[1][o2].stars[1]) >= 1
          /\ layers[1][o1].stars[1][1] # layers[1][o1].stars[1][2]

\* A star without its position.
Unplaced(star) == [color |-> star.color, speed |-> star.speed]

\* The layers ls2 are the layers ls1 but for the positions of their stars:
\* as many layers with the same size, speed, density and colors, a stars
\* array where there was one, with as many stars of the same color and speed.
SameButPositions(ls1, ls2) ==
    /\ IsDefined(ls2)
    /\ Len(ls2[1]) = Len(ls1[1])
    /\ \A o \in 1..Len(ls1[1]) :
          /\ Configured(ls2[1][o]) = Configured(ls1[1][o])
          /\ IsDefined(ls2[1][o].stars) = IsDefined(ls1[1][o].stars)
          /\ IsDefined(ls1[1][o].stars) =>
                /\ Len(ls2[1][o].stars[1]) = Len(ls1[1][o].stars[1])
                /\ \A i \in 1..Len(ls1[1][o].stars[1]) :
                      Unplaced(ls2[1][o].stars[1][i]) = Unplaced(ls1[1][o].stars[1][i])

\* C19: update(), render(), clear() and pause() never change the number of
\* stars of a layer, a star's color or own speed, or a layer's size, speed,
\* density or colors: update() changes only the x and y of stars, and
\* render(), clear() and pause() change no field of any star.
C19_FrameOperationsKeepStars ==
    [][IsDefined(layers) =>
          /\ lastOp'.op = "update" => SameButPositions(layers, layers')
          /\ lastOp'.op \in {"render", "clear", "pause"} => layers' = layers]_vars

\* update() has moved a star with a speed of its own and respawned another
\* with a speed of its own, and both have kept their color and speed.
C19_Witness ==
    /\ lastOp.op = "update"
    /\ Updated
    /\ \E o \in 1..Len(before[1]) : \E i \in 1..Len(before[1][o].stars[1]) :
          /\ isInside(before[1][o].stars[1][i].x, before[1][o].stars[1][i].y, width[1], height[1])
          /\ before[1][o].stars[1][i].speed.y > 0
          /\ layers[1][o].stars[1][i].y # before[1][o].stars[1][i].y
          /\ Unplaced(layers[1][o].stars[1][i]) = Unplaced(before[1][o].stars[1][i])
    /\ \E o \in 1..Len(before[1]) : \E i \in 1..Len(before[1][o].stars[1]) :
          /\ ~isInside(before[1][o].stars[1][i].x, before[1][o].stars[1][i].y, width[1], height[1])
          /\ before[1][o].stars[1][i].speed.y > 0
          /\ layers[1][o].stars[1][i].y = respawnY * Unit
          /\ Unplaced(layers[1][o].stars[1][i]) = Unplaced(before[1][o].stars[1][i])

OwnStars == [o \in 1..Len(layers[1]) |-> layers[1][o].stars]

\* The stars property of each layer of the second instance.
PeerStars == [k \in 1..Len(PeerLayers) |-> PeerLayers[k].stars]

\* C11: layers and stars are owned by one instance only: of two instances,
\* built from the same layers sequence or not, no operation on one
\* (calculate, resize, start, update) changes the stars of a layer of the
\* other.
C11_InstancesShareNoStars ==
    [][/\ lastOp'.op \in {"calculate", "resize", "start", "update"} => PeerStars' = PeerStars
       /\ lastOp'.op \in {"peer.calculate", "peer.update"} => OwnStars' = OwnStars]_vars

============================================================================
